---- MODULE Spec2Model ----
(***************************************************************************)
(* Model of the cloud scheduler of Scheduler.cpp / Scheduler.hpp together  *)
(* with the part of the simulator (the host) its callbacks talk to.        *)
(*                                                                         *)
(* The scheduler is single threaded: every action below is one callback of *)
(* the host (HandleNewTask, SchedulerCheck, MigrationDone, ...) run to     *)
(* completion, including every host mutator it issues.                     *)
(***************************************************************************)
EXTENDS Integers, Sequences, FiniteSets, TLC

(***************************************************************************)
(* Bounds of the model.                                                    *)
(***************************************************************************)
MaxTasks == 2
MaxVMs == 3
\* the largest core count of the P-state table checked on its own
MaxCPUs == 4
\* the number of machines of the fleet, the result of Machine_GetTotal()
Machine_GetTotal == 2

(***************************************************************************)
(* Program constants.                                                      *)
(***************************************************************************)
\* UINT_MAX is 2^32 - 1 in the source; the model checker's integers are 32 bit
\* signed, and the only use is as "larger than any task count".
UINT_MAX == 2147483647
URGENT_WINDOW == 12000000
\* MachineId_t(-1) / VMId_t(-1)
NoMachine == -1
NoVM == -1

\* VM_MEMORY_OVERHEAD is declared by the host; memory is counted in units of it.
VM_MEMORY_OVERHEAD == 1

(***************************************************************************)
(* The fleet the host simulates.  Machine ids are 0 .. Machine_GetTotal()-1*)
(***************************************************************************)
Machines == 0 .. (Machine_GetTotal - 1)

\* CPUType_t in enumeration order (the iteration order of std::map<CPUType_t,..>)
CPUOrder == <<"ARM", "POWER", "RISCV", "X86">>

\* MachineInfo_t.cpu, .num_cpus and .memory_size of each machine
MachineCPU == [m \in Machines |-> IF m = 2 THEN "ARM" ELSE "X86"]
MachineNumCPUs == [m \in Machines |-> IF m = 0 THEN 2 ELSE 1]
MachineMemorySize == [m \in Machines |-> IF m = 0 THEN 4 ELSE 3]
\* MachineInfo_t.s_states[S0]: the power drawn in S0, the efficiency key of Init
MachineS0Power == [m \in Machines |-> CASE m = 0 -> 20 [] m = 1 -> 10 [] OTHER -> 5]

SStates == {"S0", "S5"}
PStates == {"P0", "P1", "P2", "P3"}

(***************************************************************************)
(* Tasks.  The host hands out task ids 1, 2, ... in arrival order; the     *)
(* attributes of a task are fixed when it arrives and are one of the       *)
(* profiles below.                                                         *)
(***************************************************************************)
Tasks == 1 .. MaxTasks

TaskProfiles ==
    { [cpu |-> "X86", vm |-> "LINUX", sla |-> "SLA1", mem |-> 1, target |-> 1000000000],
      [cpu |-> "X86", vm |-> "LINUX", sla |-> "SLA2", mem |-> 1, target |-> 10000000],
      [cpu |-> "X86", vm |-> "WIN",   sla |-> "SLA0", mem |-> 1, target |-> 1000000000],
      [cpu |-> "X86", vm |-> "LINUX", sla |-> "SLA3", mem |-> 2, target |-> 1000000000] }

NoProfile == [cpu |-> "NONE", vm |-> "NONE", sla |-> "NONE", mem |-> 0, target |-> 0]

\* The values of the host clock at which a task may arrive.
Times == {0, 30000000}

VARIABLES
    \* ---- host ----
    sState,        \* [Machines -> SStates]  current S-state of each machine
    stateReq,      \* [Machines -> BOOLEAN]  a Machine_SetState(m, S0) is outstanding
    pState,        \* [Machines -> PStates]  P-state of each machine
    hvms,          \* Seq of VM records held by the host, indexed by VM id
    taskInfo,      \* [Tasks -> record]      status, profile and priority of a task
    nextTask,      \* the id of the next task to arrive
    \* ---- scheduler (Scheduler.hpp) ----
    vms,                 \* std::vector<VMId_t>
    activeMachines,      \* std::set<MachineId_t>
    machineUtilization,  \* std::map<MachineId_t,double>, as active_tasks (over num_cpus)
    pendingMigrations,   \* std::map<VMId_t,MachineId_t>
    pendingTasks,        \* std::set<TaskId_t>
    \* ---- observation ----
    calls,         \* the host mutators issued by the last callback
    threw,         \* the last callback ended with an exception escaping to the host
    lastCallback,  \* the last callback delivered
    lastTime,      \* its Time_t argument (0 where the callback does not read it)
    lastArg,       \* its task, VM or machine argument (0 when it has none)
    checkedTwice,  \* the last two callbacks delivered were both SchedulerCheck
    finished       \* SimulationComplete was delivered

vars == <<sState, stateReq, pState, hvms, taskInfo, nextTask,
          vms, activeMachines, machineUtilization, pendingMigrations, pendingTasks,
          calls, threw, lastCallback, lastTime, lastArg, checkedTwice, finished>>

(***************************************************************************)
(* The state as one record, so that a callback is a function from the      *)
(* state before it to the state after it and callbacks can call each other.*)
(***************************************************************************)
World ==
    [ sState |-> sState, stateReq |-> stateReq, pState |-> pState, hvms |-> hvms,
      taskInfo |-> taskInfo, vms |-> vms, activeMachines |-> activeMachines,
      machineUtilization |-> machineUtilization,
      pendingMigrations |-> pendingMigrations, pendingTasks |-> pendingTasks,
      calls |-> <<>>, threw |-> FALSE ]

Becomes(w) ==
    /\ sState' = w.sState
    /\ stateReq' = w.stateReq
    /\ pState' = w.pState
    /\ hvms' = w.hvms
    /\ taskInfo' = w.taskInfo
    /\ vms' = w.vms
    /\ activeMachines' = w.activeMachines
    /\ machineUtilization' = w.machineUtilization
    /\ pendingMigrations' = w.pendingMigrations
    /\ pendingTasks' = w.pendingTasks
    /\ calls' = w.calls
    /\ threw' = w.threw

(***************************************************************************)
(* Helpers.                                                                *)
(***************************************************************************)
RECURSIVE SumMem(_, _)
SumMem(ti, S) ==
    IF S = {} THEN 0
    ELSE LET t == CHOOSE x \in S : TRUE
         IN ti[t].profile.mem + SumMem(ti, S \ {t})

RECURSIVE SetToSeq(_)
\* the elements of a set of integers in ascending order (std::set iteration)
SetToSeq(S) ==
    IF S = {} THEN <<>>
    ELSE LET x == CHOOSE y \in S : \A z \in S : y <= z
         IN <<x>> \o SetToSeq(S \ {x})

VMIds(w) == 1 .. Len(w.hvms)

(***************************************************************************)
(* Host inspectors (Machine_GetInfo, VM_GetInfo, task queries).            *)
(***************************************************************************)
VMsOn(w, m) == {v \in VMIds(w) : w.hvms[v].machine = m}

\* MachineInfo_t.memory_used: overhead of every VM on m plus the memory of its tasks
MemoryUsed(w, m) ==
    LET vs == SetToSeq(VMsOn(w, m))
        F[i \in 0 .. Len(vs)] ==
            IF i = 0 THEN 0
            ELSE F[i - 1] + VM_MEMORY_OVERHEAD + SumMem(w.taskInfo, w.hvms[vs[i]].tasks)
    IN F[Len(vs)]

\* MachineInfo_t.active_tasks
ActiveTasks(w, m) == Cardinality(UNION {w.hvms[v].tasks : v \in VMsOn(w, m)})

RequiredSLA(w, t) == w.taskInfo[t].profile.sla
GetTaskMemory(w, t) == w.taskInfo[t].profile.mem

(***************************************************************************)
(* Host mutators.  Each records itself in the call log of the callback.    *)
(***************************************************************************)
Call(w, op, vm, m, task, arg) ==
    [ op |-> op, vm |-> vm, m |-> m, task |-> task, arg |-> arg,
      pend |-> vm \in DOMAIN w.pendingMigrations,
      s0 |-> IF m \in Machines THEN w.sState[m] = "S0" ELSE FALSE ]

Logged(w, c) == [w EXCEPT !.calls = Append(@, c)]

\* Machine_SetState(m, S0): the transition is asynchronous, StateChangeComplete follows
Machine_SetState(w, m, s) ==
    [Logged(w, Call(w, "Machine_SetState", NoVM, m, 0, s)) EXCEPT !.stateReq[m] = TRUE]

\* Machine_SetCorePerformance(m, core, p): the host propagates p to the sibling cores
Machine_SetCorePerformance(w, m, core, p) ==
    [Logged(w, Call(w, "Machine_SetCorePerformance", NoVM, m, core, p))
        EXCEPT !.pState[m] = p]

\* VM_Create(type, cpu): the new VM has the next id and is attached nowhere
VM_Create(w, type, cpu) ==
    [Logged(w, Call(w, "VM_Create", Len(w.hvms) + 1, NoMachine, 0, type))
        EXCEPT !.hvms = Append(@, [machine |-> NoMachine, cpu |-> cpu, vm_type |-> type,
                                   tasks |-> {}, migTo |-> NoMachine])]

VM_Attach(w, vm, m) ==
    [Logged(w, Call(w, "VM_Attach", vm, m, 0, "")) EXCEPT !.hvms[vm].machine = m]

\* a VM_Attach the host rejects: it throws and the VM stays unattached
VM_AttachRejected(w, vm, m) == Logged(w, Call(w, "VM_Attach rejected", vm, m, 0, ""))

VM_AddTask(w, vm, t, prio) ==
    [Logged(w, Call(w, "VM_AddTask", vm, w.hvms[vm].machine, t, prio))
        EXCEPT !.hvms[vm].tasks = @ \cup {t},
               !.taskInfo[t].priority = prio,
               !.taskInfo[t].status = "running"]

\* VM_Migrate(vm, m): asynchronous; the VM stays on its machine until MigrationDone
VM_Migrate(w, vm, m) ==
    [Logged(w, Call(w, "VM_Migrate", vm, m, 0, "")) EXCEPT !.hvms[vm].migTo = m]

VM_Shutdown(w, vm) ==
    [Logged(w, Call(w, "VM_Shutdown", vm, w.hvms[vm].machine, 0, ""))
        EXCEPT !.hvms[vm].machine = NoMachine]

SetTaskPriority(w, t, prio) ==
    [Logged(w, Call(w, "SetTaskPriority", NoVM, NoMachine, t, prio))
        EXCEPT !.taskInfo[t].priority = prio]

(***************************************************************************)
(* Scheduler::Init                                                         *)
(***************************************************************************)
MapInsert(f, k, x) == [v \in DOMAIN f \cup {k} |-> IF v = k THEN x ELSE f[v]]
MapErase(f, k) == [v \in DOMAIN f \ {k} |-> f[v]]
EmptyMap == [v \in {} |-> NoMachine]

RECURSIVE SortPairs(_)
\* std::sort of the (s_states[S0], machineId) pairs, then the ids
SortPairs(S) ==
    IF S = {} THEN <<>>
    ELSE LET m == CHOOSE x \in S : \A y \in S :
                    \/ MachineS0Power[x] < MachineS0Power[y]
                    \/ (MachineS0Power[x] = MachineS0Power[y] /\ x <= y)
         IN <<m>> \o SortPairs(S \ {m})

sortedMachinesByEfficiency == SortPairs(Machines)

\* the machines Init records as active: those the host reports in S0
InitActive(s) == {m \in Machines : s[m] = "S0"}

RECURSIVE InitVMsOfCPU(_, _, _, _)
\* the inner loop of the initial VM creation for one CPU type: one LINUX VM on every
\* active machine of that type, in efficiency order (initial_vms_per_type is 500);
\* on the machines of refused the host rejects VM_Attach, it throws and the handler
\* of the loop body only logs
InitVMsOfCPU(w, cpu, i, refused) ==
    IF i > Len(sortedMachinesByEfficiency) THEN w
    ELSE LET m == sortedMachinesByEfficiency[i] IN
         IF MachineCPU[m] = cpu /\ m \in w.activeMachines
            /\ MemoryUsed(w, m) + VM_MEMORY_OVERHEAD <= MachineMemorySize[m]
         THEN LET w1 == VM_Create(w, "LINUX", cpu)
                  vm == Len(w1.hvms)
                  w2 == [w1 EXCEPT !.vms = Append(@, vm)]
              IN InitVMsOfCPU(IF m \in refused THEN VM_AttachRejected(w2, vm, m)
                              ELSE VM_Attach(w2, vm, m),
                              cpu, i + 1, refused)
         ELSE InitVMsOfCPU(w, cpu, i + 1, refused)

RECURSIVE InitVMs(_, _, _)
\* the outer loop over machinesByCPU, a std::map iterated in CPUType_t order
InitVMs(w, c, refused) ==
    IF c > Len(CPUOrder) THEN w
    ELSE InitVMs(InitVMsOfCPU(w, CPUOrder[c], 1, refused), c + 1, refused)

SchedulerInit(s, refused) ==
    InitVMs([ sState |-> s,
              stateReq |-> [m \in Machines |-> FALSE],
              pState |-> [m \in Machines |-> "P0"],
              hvms |-> <<>>,
              taskInfo |-> [t \in Tasks |-> [status |-> "future", profile |-> NoProfile,
                                             priority |-> "NONE"]],
              vms |-> <<>>,
              activeMachines |-> InitActive(s),
              machineUtilization |-> [m \in Machines |-> 0],
              pendingMigrations |-> EmptyMap,
              pendingTasks |-> {},
              calls |-> <<>>, threw |-> FALSE ], 1, refused)

\* The host starts machine 0 or machine 1 or both in S0 and any further machine in S5.
InitialSStates ==
    {s \in [Machines -> SStates] :
        /\ \E m \in Machines : m <= 1 /\ s[m] = "S0"
        /\ \A m \in Machines : m > 1 => s[m] = "S5"}

Init ==
    \E s \in InitialSStates, refused \in SUBSET Machines :
        LET w == SchedulerInit(s, refused) IN
        /\ \A m \in refused : s[m] = "S0"
        /\ sState = w.sState
        /\ stateReq = w.stateReq
        /\ pState = w.pState
        /\ hvms = w.hvms
        /\ taskInfo = w.taskInfo
        /\ nextTask = 1
        /\ vms = w.vms
        /\ activeMachines = w.activeMachines
        /\ machineUtilization = w.machineUtilization
        /\ pendingMigrations = w.pendingMigrations
        /\ pendingTasks = w.pendingTasks
        /\ calls = w.calls
        /\ threw = w.threw
        /\ lastCallback = "InitScheduler"
        /\ lastTime = 0
        /\ lastArg = 0
        /\ checkedTwice = FALSE
        /\ finished = FALSE

(***************************************************************************)
(* Scheduler::NewTask                                                      *)
(***************************************************************************)
\* uint64_t values as four 16 bit limbs, least significant first (arguments < 2^31)
Limbs(x) == <<x % 65536, (x \div 65536) % 65536, 0, 0>>

\* a subtraction that stops at zero and does not wrap
SubClamped(a, b) ==
    LET x == a[1] + 65536 * a[2]
        y == b[1] + 65536 * b[2]
    IN IF x >= y THEN Limbs(x - y) ELSE <<0, 0, 0, 0>>

\* a - b modulo 2^64 on limbs
SubMod64(a, b) ==
    LET d1 == a[1] - b[1]
        c1 == IF d1 < 0 THEN 1 ELSE 0
        d2 == a[2] - b[2] - c1
        c2 == IF d2 < 0 THEN 1 ELSE 0
        d3 == a[3] - b[3] - c2
        c3 == IF d3 < 0 THEN 1 ELSE 0
        d4 == a[4] - b[4] - c3
    IN <<d1 % 65536, d2 % 65536, d3 % 65536, d4 % 65536>>

\* a <= b on limbs
LeqLimbs(a, b) ==
    \/ a[4] < b[4]
    \/ a[4] = b[4] /\ a[3] < b[3]
    \/ a[4] = b[4] /\ a[3] = b[3] /\ a[2] < b[2]
    \/ a[4] = b[4] /\ a[3] = b[3] /\ a[2] = b[2] /\ a[1] <= b[1]

\* tindo.target_completion - (uint64_t)now <= 12000000
UrgentNever(target, now) == FALSE
Urgent(target, now) == LeqLimbs(SubMod64(Limbs(target), Limbs(now)), Limbs(URGENT_WINDOW))

SLAPriority(sla) ==
    CASE sla = "SLA0" -> "HIGH_PRIORITY"
      [] sla = "SLA1" -> "MID_PRIORITY"
      [] sla = "SLA2" -> "LOW_PRIORITY"
      [] OTHER -> "LOW_PRIORITY"

TaskPriority(sla, target, now) ==
    IF Urgent(target, now) THEN "HIGH_PRIORITY" ELSE SLAPriority(sla)

\* the VM match leaves out a VM with a migration in flight
SkipPendingNever(w, vm) == FALSE
SkipPending(w, vm) == vm \in DOMAIN w.pendingMigrations

\* the compatibility test of the VM match for one attached VM on an S0 machine
VMCompatible(w, vm, req) ==
    /\ w.hvms[vm].cpu = req.cpu
    /\ w.hvms[vm].vm_type = req.vm
    /\ MemoryUsed(w, w.hvms[vm].machine) + req.mem <= MachineMemorySize[w.hvms[vm].machine]

RECURSIVE VMScan(_, _, _, _)
\* the loop over vms; acc holds target_vm, lowest_task_count,
\* least_loaded_compatible_vm and idle_compatible_vm
VMScan(w, req, i, acc) ==
    IF i > Len(w.vms) THEN acc
    ELSE LET vm == w.vms[i]
             n == Cardinality(w.hvms[vm].tasks)
         IN
         IF SkipPending(w, vm) THEN VMScan(w, req, i + 1, acc)
         ELSE IF w.hvms[vm].machine = NoMachine THEN VMScan(w, req, i + 1, acc)
         ELSE IF w.sState[w.hvms[vm].machine] # "S0" THEN VMScan(w, req, i + 1, acc)
         ELSE IF ~VMCompatible(w, vm, req) THEN VMScan(w, req, i + 1, acc)
         ELSE LET a1 == IF n = 0 THEN [acc EXCEPT !.idle = vm] ELSE acc IN
              IF n = 0 /\ req.sla \in {"SLA0", "SLA1"}
              THEN [a1 EXCEPT !.target = vm]
              ELSE VMScan(w, req, i + 1,
                          IF n < a1.lowest
                          THEN [a1 EXCEPT !.lowest = n, !.least = vm]
                          ELSE a1)

\* target_vm after the VM match
VMMatch(w, req) ==
    LET acc == VMScan(w, req, 1, [target |-> NoVM, lowest |-> UINT_MAX,
                                  least |-> NoVM, idle |-> NoVM])
    IN IF acc.target # NoVM THEN acc.target
       ELSE IF acc.idle # NoVM THEN acc.idle
       ELSE IF acc.least # NoVM THEN acc.least
       ELSE NoVM

\* current_utilization > num/den, with machineUtilization[m] = tasks / num_cpus
UtilGT(w, m, num, den) == w.machineUtilization[m] * den > num * MachineNumCPUs[m]
UtilLT(w, m, num, den) == w.machineUtilization[m] * den < num * MachineNumCPUs[m]

\* OVERLOAD_THRESHOLD = 0.8
OverloadNum == 8
OverloadDen == 10

\* a machine match that does not look at the memory of the machine
MachineEligibleAnyMemory(w, m, req) ==
    /\ m \in w.activeMachines
    /\ w.sState[m] = "S0"
    /\ MachineCPU[m] = req.cpu
    /\ ~(req.sla \in {"SLA0", "SLA1"} /\ UtilGT(w, m, 1, 2))
    /\ ~UtilGT(w, m, OverloadNum, OverloadDen)

\* the test of the machine match for one machine
MachineEligible(w, m, req) ==
    /\ m \in w.activeMachines
    /\ w.sState[m] = "S0"
    /\ MachineCPU[m] = req.cpu
    /\ MemoryUsed(w, m) + req.mem + VM_MEMORY_OVERHEAD <= MachineMemorySize[m]
    /\ ~(req.sla \in {"SLA0", "SLA1"} /\ UtilGT(w, m, 1, 2))
    /\ ~UtilGT(w, m, OverloadNum, OverloadDen)

\* the test of the wake-up loop for one machine
MachineWakeable(w, m, req) ==
    /\ m \notin w.activeMachines
    /\ MachineCPU[m] = req.cpu
    /\ req.mem + VM_MEMORY_OVERHEAD <= MachineMemorySize[m]

\* the first machine of a set of positions in efficiency order, or MachineId_t(-1)
FirstMachine(idx) ==
    IF idx = {} THEN NoMachine
    ELSE sortedMachinesByEfficiency[CHOOSE i \in idx : \A j \in idx : i <= j]

\* the machine match: the first eligible machine in efficiency order
FirstEligibleMachine(w, req) ==
    FirstMachine({i \in 1 .. Len(sortedMachinesByEfficiency) :
                     MachineEligible(w, sortedMachinesByEfficiency[i], req)})

\* the wake-up loop: the first machine in efficiency order that can be woken
FirstWakeableMachine(w, req) ==
    FirstMachine({i \in 1 .. Len(sortedMachinesByEfficiency) :
                     MachineWakeable(w, sortedMachinesByEfficiency[i], req)})

RECURSIVE SetAllCores(_, _, _, _)
\* for (i = 0; i < num_cpus; i++) Machine_SetCorePerformance(m, i, p)
SetAllCores(w, m, i, p) ==
    IF i >= MachineNumCPUs[m] THEN w
    ELSE SetAllCores(Machine_SetCorePerformance(w, m, i, p), m, i + 1, p)

\* a memory warning that raises the first core only
MemoryWarningFirstCoreOnly(w, m) == Machine_SetCorePerformance(w, m, 0, "P0")

\* MemoryWarning(time, machine): the largest VM is only identified; every core goes to P0
MemoryWarningHandler(w, m) == SetAllCores(w, m, 0, "P0")

\* the new VM of the machine match is attached unless the machine was just woken
AttachNewVMAlways(w, vm, m, powered_on_new_machine) == VM_Attach(w, vm, m)
AttachNewVM(w, vm, m, powered_on_new_machine) ==
    IF ~powered_on_new_machine THEN VM_Attach(w, vm, m) ELSE w

\* the commit step: VM_AddTask on the target VM; when the host rejects the call it
\* throws and the handler around the commit only logs
CommitTask(w, vm, t, req, prio, add_ok) ==
    LET mid == w.hvms[vm].machine IN
    IF mid = NoMachine THEN w
    ELSE IF w.sState[mid] # "S0" THEN w
    ELSE IF MemoryUsed(w, mid) + req.mem <= MachineMemorySize[mid]
         THEN IF ~add_ok THEN w
              ELSE LET w1 == VM_AddTask(w, vm, t, prio) IN
                   IF req.sla \in {"SLA0", "SLA1"}
                   THEN Machine_SetCorePerformance(w1, mid, 0, "P0")
                   ELSE w1
         ELSE MemoryWarningHandler(w, mid)

\* VM_Attach is called and the host rejects it
AttachThrows(powered_on_new_machine, attach_ok) ==
    ~powered_on_new_machine /\ ~attach_ok

\* the handler of the creation block: vms.erase(std::remove(.., target_vm), ..);
\* target_vm = VMId_t(-1), so that the commit is skipped
EraseNewVM(w, target_vm) ==
    [w EXCEPT !.vms = SelectSeq(@, LAMBDA v : v # target_vm)]

\* machine match, wake-up and VM creation, reached when the VM match found nothing
PlaceOnMachine(w, t, req, prio, add_ok, attach_ok) ==
    LET eligible == FirstEligibleMachine(w, req)
        woken == IF eligible = NoMachine
                 THEN FirstWakeableMachine(w, req) ELSE NoMachine
        powered_on_new_machine == woken # NoMachine
        w1 == IF powered_on_new_machine THEN Machine_SetState(w, woken, "S0") ELSE w
        target_machine == IF eligible # NoMachine THEN eligible ELSE woken
    IN IF target_machine = NoMachine THEN w1
       ELSE LET w2 == VM_Create(w1, req.vm, req.cpu)
                target_vm == Len(w2.hvms)
                w3 == [w2 EXCEPT !.vms = Append(@, target_vm)]
                w4 == AttachNewVM(w3, target_vm, target_machine, powered_on_new_machine)
            IN IF AttachThrows(powered_on_new_machine, attach_ok)
               THEN EraseNewVM(VM_AttachRejected(w3, target_vm, target_machine), target_vm)
               ELSE CommitTask(w4, target_vm, t, req, prio, add_ok)

NewTaskHandler(w0, now, t, req, add_ok, attach_ok) ==
    LET w == [w0 EXCEPT !.taskInfo[t] =
                  [status |-> "arrived", profile |-> req, priority |-> "NONE"]]
        prio == TaskPriority(req.sla, req.target, now)
        target_vm == VMMatch(w, req)
    IN IF target_vm # NoVM THEN CommitTask(w, target_vm, t, req, prio, add_ok)
       ELSE PlaceOnMachine(w, t, req, prio, add_ok, attach_ok)

(***************************************************************************)
(* Scheduler::PeriodicCheck                                                *)
(***************************************************************************)
HasHighPriorityTasks(w, m) ==
    \E i \in 1 .. Len(w.vms) :
        /\ w.hvms[w.vms[i]].machine = m
        /\ \E t \in w.hvms[w.vms[i]].tasks : RequiredSLA(w, t) \in {"SLA0", "SLA1"}

\* the utilization refresh: active_tasks / num_cpus for an active S0 machine, else 0.0
RefreshUtilization(w) ==
    [w EXCEPT !.machineUtilization =
        [m \in Machines |->
            IF m \in w.activeMachines /\ w.sState[m] = "S0" /\ MachineNumCPUs[m] > 0
            THEN ActiveTasks(w, m) ELSE 0]]

\* targetPState from highPri, info.active_tasks and util = util_tasks / num_cpus
PStateForLoadOnly(highPri, active_tasks, util_tasks, num_cpus) ==
    IF active_tasks = 0 THEN "P3"
    ELSE IF util_tasks * 100 > 75 * num_cpus THEN "P0"
    ELSE IF util_tasks * 10 > 3 * num_cpus THEN "P1"
    ELSE "P2"
PStateFor(highPri, active_tasks, util_tasks, num_cpus) ==
    IF highPri THEN "P0"
    ELSE IF active_tasks > 0
         THEN IF util_tasks * 100 > 75 * num_cpus THEN "P0"
              ELSE IF util_tasks * 10 > 3 * num_cpus THEN "P1"
              ELSE "P2"
         ELSE "P3"

TargetPState(w, m) ==
    PStateFor(HasHighPriorityTasks(w, m), ActiveTasks(w, m),
              w.machineUtilization[m], MachineNumCPUs[m])

\* if (info.p_state != targetPState)
NeedsPStateChangeAlways(w, m) == TRUE
NeedsPStateChange(w, m) == w.pState[m] # TargetPState(w, m)

RECURSIVE AdjustPStates(_, _, _)
\* the P-state loop over activeMachines
AdjustPStates(w, ms, i) ==
    IF i > Len(ms) THEN w
    ELSE LET m == ms[i] IN
         IF w.sState[m] = "S0" /\ NeedsPStateChange(w, m)
         THEN AdjustPStates(Machine_SetCorePerformance(w, m, 0, TargetPState(w, m)), ms, i + 1)
         ELSE AdjustPStates(w, ms, i + 1)

PeriodicCheckHandler(w) ==
    LET w1 == RefreshUtilization(w)
    IN AdjustPStates(w1, SetToSeq(w1.activeMachines), 1)

(***************************************************************************)
(* Scheduler::MigrationComplete                                            *)
(***************************************************************************)
MigrationCompleteHandler(w, vm) ==
    IF vm \in DOMAIN w.pendingMigrations
    THEN LET target == w.pendingMigrations[vm]
             w1 == [w EXCEPT !.pendingMigrations = MapErase(@, vm)]
             w2 == IF /\ w1.hvms[vm].machine = target
                      /\ HasHighPriorityTasks(w1, target)
                      /\ w1.pState[target] # "P0"
                   THEN Machine_SetCorePerformance(w1, target, 0, "P0")
                   ELSE w1
         IN PeriodicCheckHandler(w2)
    ELSE PeriodicCheckHandler(w)

(***************************************************************************)
(* Scheduler::Shutdown                                                     *)
(***************************************************************************)
\* every attached VM of the list is shut down
ShutdownSkipsVM(w, vm) == w.hvms[vm].machine = NoMachine

RECURSIVE ShutdownVMs(_, _)
ShutdownVMs(w, i) ==
    IF i > Len(w.vms) THEN w
    ELSE IF ShutdownSkipsVM(w, w.vms[i]) THEN ShutdownVMs(w, i + 1)
         ELSE ShutdownVMs(VM_Shutdown(w, w.vms[i]), i + 1)

ShutdownHandler(w) == ShutdownVMs(w, 1)

(***************************************************************************)
(* Scheduler::FindMigrationTarget                                          *)
(***************************************************************************)
\* a non-S0 machine of the right CPU that is not in the active set is woken and
\* entered into the active set at once
WakeForMigration(w, m) ==
    IF m \notin w.activeMachines
    THEN [Machine_SetState(w, m, "S0") EXCEPT !.activeMachines = @ \cup {m},
                                               !.machineUtilization[m] = 0]
    ELSE w

\* if (info.s_state != S0): the machine is no target yet
TargetNotReadyNever(w, m) == FALSE
TargetNotReady(w, m) == w.sState[m] # "S0"

RECURSIVE FindTargetLoop(_, _, _, _)
\* the loop over sortedMachinesByEfficiency; the result is the state and the target
FindTargetLoop(w, vm, total_mem_needed, i) ==
    IF i > Len(sortedMachinesByEfficiency) THEN [w |-> w, target |-> NoMachine]
    ELSE LET m == sortedMachinesByEfficiency[i] IN
         IF m = w.hvms[vm].machine THEN FindTargetLoop(w, vm, total_mem_needed, i + 1)
         ELSE IF MachineCPU[m] # w.hvms[vm].cpu
              THEN FindTargetLoop(w, vm, total_mem_needed, i + 1)
         ELSE IF TargetNotReady(w, m)
              THEN FindTargetLoop(WakeForMigration(w, m), vm, total_mem_needed, i + 1)
         ELSE IF MemoryUsed(w, m) + total_mem_needed > MachineMemorySize[m]
              THEN FindTargetLoop(w, vm, total_mem_needed, i + 1)
         ELSE IF UtilLT(w, m, OverloadNum, OverloadDen)
              THEN [w |-> w, target |-> m]
         ELSE FindTargetLoop(w, vm, total_mem_needed, i + 1)

FindMigrationTarget(w, vm) ==
    FindTargetLoop(w, vm, VM_MEMORY_OVERHEAD + SumMem(w.taskInfo, w.hvms[vm].tasks), 1)

(***************************************************************************)
(* SLAWarning                                                              *)
(***************************************************************************)
\* the scan for the VM of the task leaves out a VM with a migration in flight
LocateSkipsNothing(w, vm) == w.hvms[vm].machine = NoMachine
LocateSkips(w, vm) ==
    \/ vm \in DOMAIN w.pendingMigrations
    \/ w.hvms[vm].machine = NoMachine

\* taskVM: the first VM of the list, not skipped, that runs the task
LocateTaskVM(w, t) ==
    LET idx == {i \in 1 .. Len(w.vms) :
                    ~LocateSkips(w, w.vms[i]) /\ t \in w.hvms[w.vms[i]].tasks}
    IN IF idx = {} THEN NoVM ELSE w.vms[CHOOSE i \in idx : \A j \in idx : i <= j]

\* an exception no handler of the callback catches
Throws(w) == [w EXCEPT !.threw = TRUE]

\* a migration that is issued without its entry in pendingMigrations
IssueMigrationUnrecorded(w, vm, target, migrate_ok) ==
    IF migrate_ok THEN VM_Migrate(w, vm, target) ELSE Throws(w)

\* pendingMigrations[taskVM] = target; VM_Migrate(taskVM, target);
\* when the host refuses the migration the call throws after the entry was made, and
\* SLAWarning has no handler around it
IssueMigration(w, vm, target, migrate_ok) ==
    LET w1 == [w EXCEPT !.pendingMigrations = MapInsert(@, vm, target)]
    IN IF migrate_ok THEN VM_Migrate(w1, vm, target) ELSE Throws(w1)

SLAWarningHandler(w, t, migrate_ok) ==
    LET taskVM == LocateTaskVM(w, t) IN
    IF taskVM = NoVM THEN w
    ELSE LET taskMachine == w.hvms[taskVM].machine IN
         IF RequiredSLA(w, t) \in {"SLA0", "SLA1"}
         THEN LET w1 == SetTaskPriority(w, t, "HIGH_PRIORITY")
                  w2 == IF w1.sState[taskMachine] = "S0" /\ w1.pState[taskMachine] # "P0"
                        THEN Machine_SetCorePerformance(w1, taskMachine, 0, "P0")
                        ELSE w1
              IN IF UtilGT(w2, taskMachine, OverloadNum, OverloadDen)
                 THEN LET r == FindMigrationTarget(w2, taskVM) IN
                      IF r.target # NoMachine
                      THEN IssueMigration(r.w, taskVM, r.target, migrate_ok)
                      ELSE r.w
                 ELSE w2
         ELSE IF RequiredSLA(w, t) = "SLA2" /\ w.taskInfo[t].priority = "LOW_PRIORITY"
              THEN SetTaskPriority(w, t, "MID_PRIORITY")
              ELSE w

(***************************************************************************)
(* StateChangeComplete                                                     *)
(***************************************************************************)
\* an activation that leaves the active set as it is
ActivateMachineUtilizationOnly(w, m) == [w EXCEPT !.machineUtilization[m] = 0]
ActivateMachine(w, m) ==
    [w EXCEPT !.activeMachines = @ \cup {m}, !.machineUtilization[m] = 0]

DeactivateMachine(w, m) == [w EXCEPT !.activeMachines = @ \ {m}]

\* a default LINUX VM is created and attached when no VM of the list is on the machine;
\* when the host rejects VM_Attach it throws and the handlers of the block only log
DefaultVM(w, m, attach_ok) ==
    IF \E i \in 1 .. Len(w.vms) : w.hvms[w.vms[i]].machine = m THEN w
    ELSE LET w1 == VM_Create(w, "LINUX", MachineCPU[m])
             newVM == Len(w1.hvms)
             w2 == [w1 EXCEPT !.vms = Append(@, newVM)]
         IN IF attach_ok THEN VM_Attach(w2, newVM, m) ELSE VM_AttachRejected(w2, newVM, m)

StateChangeCompleteHandler(w, m, attach_ok) ==
    IF w.sState[m] = "S0"
    THEN LET w1 == ActivateMachine(w, m)
             w2 == SetAllCores(w1, m, 0, "P1")
         IN PeriodicCheckHandler(DefaultVM(w2, m, attach_ok))
    ELSE IF w.sState[m] = "S5"
    THEN LET w1 == DeactivateMachine(w, m)
         IN PeriodicCheckHandler([w1 EXCEPT !.machineUtilization[m] = 0])
    ELSE [w EXCEPT !.machineUtilization[m] = 0]

(***************************************************************************)
(* The callbacks the host delivers.                                        *)
(***************************************************************************)
Delivered(w, name, time, arg) ==
    /\ Len(w.hvms) <= MaxVMs
    /\ Becomes(w)
    /\ lastCallback' = name
    /\ lastTime' = time
    /\ lastArg' = arg
    /\ checkedTwice' = (name = "SchedulerCheck" /\ lastCallback = "SchedulerCheck")

\* HandleNewTask(now, task): the next task arrives with one of the profiles; the host
\* accepts every mutator of the callback or rejects its VM_Attach or its VM_AddTask
HandleNewTask ==
    /\ ~finished
    /\ nextTask \in Tasks
    /\ \E req \in TaskProfiles, now \in Times,
          rejected \in {"none", "VM_Attach", "VM_AddTask"} :
        \E w \in {NewTaskHandler(World, now, nextTask, req,
                                 rejected # "VM_AddTask", rejected # "VM_Attach")} :
            Delivered(w, "HandleNewTask", now, nextTask)
    /\ nextTask' = nextTask + 1
    /\ UNCHANGED finished

\* HandleTaskCompletion(now, task): the host has removed the finished task from its VM
\* and keeps nothing of it
HandleTaskCompletion ==
    /\ ~finished
    /\ \E t \in Tasks :
        /\ taskInfo[t].status = "running"
        /\ \E w \in {[World EXCEPT
                !.hvms = [v \in 1 .. Len(hvms) |-> [hvms[v] EXCEPT !.tasks = @ \ {t}]],
                !.taskInfo[t] = [status |-> "done", profile |-> NoProfile,
                                 priority |-> "NONE"]]} :
            Delivered(w, "HandleTaskCompletion", 0, t)
    /\ UNCHANGED <<nextTask, finished>>

SchedulerCheck ==
    /\ ~finished
    /\ \E w \in {PeriodicCheckHandler(World)} : Delivered(w, "SchedulerCheck", 0, 0)
    /\ UNCHANGED <<nextTask, finished>>

\* MemoryWarning(time, machine): the host reports a machine whose memory is used up
MemoryWarning ==
    /\ ~finished
    /\ \E m \in Machines :
        /\ MemoryUsed(World, m) >= MachineMemorySize[m]
        /\ \E w \in {MemoryWarningHandler(World, m)} : Delivered(w, "MemoryWarning", 0, m)
    /\ UNCHANGED <<nextTask, finished>>

\* MigrationDone(time, vm): the host has moved the VM to the target of its VM_Migrate;
\* a completion for a VM with no migration in flight moves nothing
MigrationDone ==
    /\ ~finished
    /\ \E vm \in 1 .. Len(hvms) :
        \E w \in {MigrationCompleteHandler(
                      IF hvms[vm].migTo # NoMachine
                      THEN [World EXCEPT !.hvms[vm].machine = hvms[vm].migTo,
                                         !.hvms[vm].migTo = NoMachine]
                      ELSE World, vm)} :
            Delivered(w, "MigrationDone", 0, vm)
    /\ UNCHANGED <<nextTask, finished>>

\* StateChangeComplete(time, machine): the requested transition to S0 has finished
StateChangeComplete ==
    /\ ~finished
    /\ \E m \in Machines, attach_ok \in BOOLEAN :
        /\ stateReq[m]
        /\ \E w \in {StateChangeCompleteHandler(
                        [World EXCEPT !.sState[m] = "S0", !.stateReq[m] = FALSE],
                        m, attach_ok)} :
            Delivered(w, "StateChangeComplete", 0, m)
    /\ UNCHANGED <<nextTask, finished>>

\* SLAWarning(time, task): the host predicts an SLA violation for a task that arrived
SLAWarning ==
    /\ ~finished
    /\ \E t \in Tasks, migrate_ok \in BOOLEAN :
        /\ taskInfo[t].status \in {"arrived", "running"}
        /\ \E w \in {SLAWarningHandler(World, t, migrate_ok)} :
            Delivered(w, "SLAWarning", 0, t)
    /\ UNCHANGED <<nextTask, finished>>

\* SimulationComplete(time): the report is printed and Scheduler::Shutdown runs
SimulationComplete ==
    /\ ~finished
    /\ \E w \in {ShutdownHandler(World)} : Delivered(w, "SimulationComplete", 0, 0)
    /\ finished' = TRUE
    /\ UNCHANGED nextTask

Next ==
    \/ HandleNewTask
    \/ HandleTaskCompletion
    \/ SchedulerCheck
    \/ MemoryWarning
    \/ MigrationDone
    \/ StateChangeComplete
    \/ SLAWarning
    \/ SimulationComplete

Spec == Init /\ [][Next]_vars

(***************************************************************************)
(* Properties.                                                             *)
(***************************************************************************)
CallsOf(op) == {i \in 1 .. Len(calls) : calls[i].op = op}

\* C1: NewTask never issues VM_AddTask to a VM that is in the Pending-Migration
\* table at that moment.
C1_NoAddTaskToPendingVM ==
    \A i \in CallsOf("VM_AddTask") : ~calls[i].pend

\* C1 witness: NewTask has just placed a task on a VM while another VM, idle, on an
\* S0 machine with room and of the CPU family and type the task needs, is pending.
C1_Witness ==
    /\ lastCallback = "HandleNewTask"
    /\ \E i \in CallsOf("VM_AddTask") :
        \E v \in DOMAIN pendingMigrations :
            /\ v # calls[i].vm
            /\ hvms[v].tasks = {}
            /\ hvms[v].machine # NoMachine
            /\ sState[hvms[v].machine] = "S0"
            /\ hvms[v].cpu = taskInfo[calls[i].task].profile.cpu
            /\ hvms[v].vm_type = taskInfo[calls[i].task].profile.vm
            /\ MemoryUsed(World, hvms[v].machine) + taskInfo[calls[i].task].profile.mem
                   <= MachineMemorySize[hvms[v].machine]

\* C2: a VM is in the Pending-Migration table if and only if a VM_Migrate for it
\* was issued to the host and its MigrationDone has not been delivered yet.
C2_PendingIffInFlight ==
    \A v \in 1 .. Len(hvms) :
        (v \in DOMAIN pendingMigrations) <=> (hvms[v].migTo # NoMachine)

\* the positions in the VM list of the VMs the VM match may choose for a task
CompatiblePositions(req) ==
    {i \in 1 .. Len(vms) :
        /\ vms[i] \notin DOMAIN pendingMigrations
        /\ hvms[vms[i]].machine # NoMachine
        /\ sState[hvms[vms[i]].machine] = "S0"
        /\ hvms[vms[i]].cpu = req.cpu
        /\ hvms[vms[i]].vm_type = req.vm
        /\ MemoryUsed(World, hvms[vms[i]].machine) + req.mem
               <= MachineMemorySize[hvms[vms[i]].machine]}

IdlePositions(req) == {i \in CompatiblePositions(req) : hvms[vms[i]].tasks = {}}

\* the target the VM match is to choose: the first idle compatible VM, else the
\* first of the compatible VMs with the fewest active tasks
FirstIdleElseLeastLoaded(req) ==
    LET idle == IdlePositions(req)
        comp == CompatiblePositions(req)
    IN IF idle # {} THEN vms[CHOOSE i \in idle : \A j \in idle : i <= j]
       ELSE IF comp # {}
       THEN vms[CHOOSE i \in comp : \A j \in comp :
                    \/ Cardinality(hvms[vms[i]].tasks) < Cardinality(hvms[vms[j]].tasks)
                    \/ /\ Cardinality(hvms[vms[i]].tasks) = Cardinality(hvms[vms[j]].tasks)
                       /\ i <= j]
       ELSE NoVM

\* C3: a task NewTask left unassigned re-enters placement when the woken machine's
\* StateChangeComplete fires and on a later PeriodicCheck: once the host owes no
\* state change and a SchedulerCheck has run, no task that arrived is still
\* unassigned while a VM the VM match would choose for it exists.
C3_DeferredTaskIsPlacedAgain ==
    (/\ lastCallback = "SchedulerCheck"
     /\ \A m \in Machines : ~stateReq[m])
    => \A t \in Tasks :
           taskInfo[t].status = "arrived" =>
               CompatiblePositions(taskInfo[t].profile) = {}

\* C4: for a task of any SLA class the VM match chooses the first idle compatible
\* VM in insertion order and, when none is idle, the compatible VM with the fewest
\* active tasks, ties broken by insertion order.
C4_FirstIdleElseLeastLoaded ==
    [][(lastCallback' = "HandleNewTask" /\ nextTask' = nextTask + 1) =>
          LET chosen == FirstIdleElseLeastLoaded(taskInfo'[nextTask].profile)
          IN chosen # NoVM => nextTask \in hvms'[chosen].tasks]_vars

\* C5: every machine in the active-machine set is in S0 at the host.
C5_ActiveMachinesAreS0 ==
    \A m \in activeMachines : sState[m] = "S0"

\* C6: after each PeriodicCheck the active-machine set is exactly the set of the
\* machines the host has in S0.
C6_ActiveSetIsS0SetAfterCheck ==
    lastCallback \in {"SchedulerCheck", "MigrationDone", "StateChangeComplete"} =>
        activeMachines = {m \in Machines : sState[m] = "S0"}

\* C7: no VM_Shutdown is issued for a VM in the Pending-Migration table.
C7_NoShutdownOfPendingVM ==
    \A i \in CallsOf("VM_Shutdown") : ~calls[i].pend

\* C8: a callback issues no VM_Migrate for a VM that was in the Pending-Migration
\* table, or had a migration in flight at the host, when the callback began.
C8_NoSecondMigration ==
    [][\A i \in 1 .. Len(calls') :
           calls'[i].op = "VM_Migrate" =>
               /\ calls'[i].vm \notin DOMAIN pendingMigrations
               /\ hvms[calls'[i].vm].migTo = NoMachine]_vars

\* C8 witness: an SLAWarning was delivered for an SLA0/SLA1 task on an overloaded machine
\* whose VM has a migration in flight, and it issued no migration.
C8_Witness ==
    /\ lastCallback = "SLAWarning"
    /\ CallsOf("VM_Migrate") = {}
    /\ taskInfo[lastArg].profile.sla \in {"SLA0", "SLA1"}
    /\ \E v \in DOMAIN pendingMigrations :
        /\ lastArg \in hvms[v].tasks
        /\ hvms[v].migTo # NoMachine
        /\ hvms[v].machine # NoMachine
        /\ UtilGT(World, hvms[v].machine, OverloadNum, OverloadDen)

\* C9: on every machine the memory overhead of its VMs plus the memory of their
\* tasks is at most the memory size of the machine.
C9_MemoryWithinSize ==
    \A m \in Machines : MemoryUsed(World, m) <= MachineMemorySize[m]

\* C10: VM_AddTask and VM_Attach only reach a machine that is in S0 at that moment.
C10_OnlyS0MachinesReceive ==
    \A i \in CallsOf("VM_AddTask") \cup CallsOf("VM_Attach") : calls[i].s0

\* C10 witness: NewTask had no eligible S0 machine and woke a sleeping one; the VM
\* it created was attached nowhere and the task was added to no VM.
C10_Witness ==
    /\ lastCallback = "HandleNewTask"
    /\ \E i \in CallsOf("Machine_SetState") : sState[calls[i].m] # "S0"
    /\ CallsOf("VM_Create") # {}
    /\ CallsOf("VM_Attach") = {}
    /\ CallsOf("VM_AddTask") = {}

\* C11: a SchedulerCheck delivered right after a SchedulerCheck issues no host
\* mutator and leaves the P-states, the active set, the utilization table, the
\* Pending-Migration table and the VM list as the first left them.
C11_SecondCheckIsIdle ==
    [][(lastCallback = "SchedulerCheck" /\ lastCallback' = "SchedulerCheck") =>
          /\ calls' = <<>>
          /\ pState' = pState
          /\ activeMachines' = activeMachines
          /\ machineUtilization' = machineUtilization
          /\ pendingMigrations' = pendingMigrations
          /\ vms' = vms]_vars

\* C11 witness: two SchedulerChecks in a row were delivered while an active machine
\* runs tasks at a P-state other than the initial one.
C11_Witness ==
    /\ checkedTwice
    /\ \E m \in activeMachines : ActiveTasks(World, m) > 0 /\ pState[m] = "P1"

\* the tasks the host runs on a machine
TasksOnMachine(m) ==
    UNION {hvms[v].tasks : v \in {u \in 1 .. Len(hvms) : hvms[u].machine = m}}

\* the P-state claimed for a machine with n tasks on c cores, high telling whether
\* one of the tasks is SLA0 or SLA1
ClaimedPState(high, n, c) ==
    IF high THEN "P0"
    ELSE IF n = 0 THEN "P3"
    ELSE IF n * 100 > 75 * c THEN "P0"
    ELSE IF n * 100 > 30 * c THEN "P1"
    ELSE "P2"

ClaimedTargetPState(m) ==
    ClaimedPState(\E t \in TasksOnMachine(m) : taskInfo[t].profile.sla \in {"SLA0", "SLA1"},
                  Cardinality(TasksOnMachine(m)), MachineNumCPUs[m])

\* the Machine_SetCorePerformance calls of the step's callback for machine m
PStateCalls(m) ==
    {i \in 1 .. Len(calls') :
        calls'[i].op = "Machine_SetCorePerformance" /\ calls'[i].m = m}

\* PeriodicCheck's target is the claimed one for every load of up to MaxCPUs cores
PStateTableAsClaimed ==
    \A high \in BOOLEAN, c \in 1 .. MaxCPUs, n \in 0 .. MaxCPUs + 1 :
        PStateFor(high, n, n, c) = ClaimedPState(high, n, c)

SleepingCandidates(req) ==
    {i \in 1 .. Len(sortedMachinesByEfficiency) :
        LET m == sortedMachinesByEfficiency[i] IN
        /\ sState[m] # "S0"
        /\ MachineCPU[m] = req.cpu
        /\ req.mem + VM_MEMORY_OVERHEAD <= MachineMemorySize[m]}

\* every S0 machine is at least half utilized, by the utilization table and by the
\* host's task count alike
AllS0HalfUtilized ==
    \A m \in Machines :
        sState[m] = "S0" =>
            /\ machineUtilization[m] * 2 >= MachineNumCPUs[m]
            /\ ActiveTasks(World, m) * 2 >= MachineNumCPUs[m]

\* C12: when an SLA0 task arrives, no compatible VM exists and every S0 machine has
\* utilization >= 0.5, NewTask requests S0 for the first non-S0 machine in efficiency
\* order with the CPU family and the memory, and attaches no VM to an S0 machine.
C12_SLA0WakesWhenHalfUtilized ==
    [][(/\ lastCallback' = "HandleNewTask"
        /\ nextTask' = nextTask + 1
        /\ taskInfo'[nextTask].profile.sla = "SLA0"
        /\ CompatiblePositions(taskInfo'[nextTask].profile) = {}
        /\ AllS0HalfUtilized
        /\ SleepingCandidates(taskInfo'[nextTask].profile) # {})
       => LET cand == SleepingCandidates(taskInfo'[nextTask].profile)
              first == sortedMachinesByEfficiency[CHOOSE i \in cand : \A j \in cand : i <= j]
          IN /\ \E i \in 1 .. Len(calls') :
                    calls'[i].op = "Machine_SetState" /\ calls'[i].m = first
             /\ \A i \in 1 .. Len(calls') :
                    calls'[i].op = "VM_Attach" => ~calls'[i].s0]_vars

\* C14: when the commit step of NewTask had a target VM on an S0 machine and the task
\* was not added (the host refused VM_AddTask or the memory did not suffice), the
\* callback raised a MemoryWarning for the machine (P0 requested on its cores) and
\* recorded the task for retry.
C14_RefusedCommitDefersTask ==
    [][(/\ lastCallback' = "HandleNewTask"
        /\ nextTask' = nextTask + 1
        /\ taskInfo'[nextTask].status = "arrived"
        /\ \/ CompatiblePositions(taskInfo'[nextTask].profile) # {}
           \/ \E i \in 1 .. Len(calls') : calls'[i].op = "VM_Attach")
       => /\ nextTask \in pendingTasks'
          /\ \E i \in 1 .. Len(calls') :
                 /\ calls'[i].op = "Machine_SetCorePerformance"
                 /\ calls'[i].arg = "P0"]_vars

\* C15: no callback ends with an exception escaping to the host.
C15_NoExceptionEscapes == ~threw

\* C16: a MigrationDone for a VM that is not in the Pending-Migration table issues
\* no host mutator and leaves the Pending-Migration table, the active set, the
\* utilization table and the VM list unchanged.
C16_UnexpectedCompletionIgnored ==
    [][(lastCallback' = "MigrationDone" /\ lastArg' \notin DOMAIN pendingMigrations) =>
          /\ calls' = <<>>
          /\ pendingMigrations' = pendingMigrations
          /\ activeMachines' = activeMachines
          /\ machineUtilization' = machineUtilization
          /\ vms' = vms]_vars

\* C17: while a task is running at least two machines are in S0, unless the fleet
\* has fewer than two machines.
C17_TwoMachinesActive ==
    (Machine_GetTotal >= 2 /\ \E t \in Tasks : taskInfo[t].status = "running") =>
        Cardinality({m \in Machines : sState[m] = "S0"}) >= 2

\* C20: a NewTask that requests S0 for a sleeping machine creates no VM in that
\* callback.
C20_NoVMForSleepingMachine ==
    (/\ lastCallback = "HandleNewTask"
     /\ \E i \in CallsOf("Machine_SetState") : ~calls[i].s0)
    => CallsOf("VM_Create") = {}

\* the priority claimed for a task of an SLA class that arrives at now
ClaimedPriority(sla, target, now) ==
    IF sla = "SLA0" \/ target - now <= 12000000 THEN "HIGH_PRIORITY"
    ELSE IF sla = "SLA1" THEN "MID_PRIORITY"
    ELSE "LOW_PRIORITY"

\* NewTask's priority is the claimed one for every SLA class at the edge of the window,
\* from two arrival times
PriorityTableAsClaimed ==
    \A sla \in {"SLA0", "SLA1", "SLA2", "SLA3"} :
        \A now \in {0, 30000000} :
            \A gap \in {0, 12000000, 12000001, 1000000000} :
                TaskPriority(sla, now + gap, now) = ClaimedPriority(sla, now + gap, now)

ClaimedEligible(m, req) ==
    /\ sState[m] = "S0"
    /\ MachineCPU[m] = req.cpu
    /\ MemoryUsed(World, m) + req.mem + VM_MEMORY_OVERHEAD <= MachineMemorySize[m]
    /\ machineUtilization[m] * 10 <= 8 * MachineNumCPUs[m]
    /\ req.sla \in {"SLA0", "SLA1"} => machineUtilization[m] * 2 <= MachineNumCPUs[m]

\* C21: the machine on which NewTask creates and attaches a new VM is the first
\* machine in efficiency order that is in S0, has the required CPU family, has room
\* for the task and the VM and has utilization <= 0.8 (<= 0.5 for SLA0/SLA1); the
\* new VM has the task's VM type and CPU family.
C21_MachineMatchChoosesFirstEligible ==
    [][lastCallback' = "HandleNewTask" =>
        LET req == taskInfo'[lastArg'].profile IN
        \A i \in 1 .. Len(calls') :
            calls'[i].op = "VM_Attach" =>
                /\ \E k \in 1 .. Len(sortedMachinesByEfficiency) :
                    /\ sortedMachinesByEfficiency[k] = calls'[i].m
                    /\ ClaimedEligible(calls'[i].m, req)
                    /\ \A j \in 1 .. (k - 1) :
                           ~ClaimedEligible(sortedMachinesByEfficiency[j], req)
                /\ calls'[i].vm \notin 1 .. Len(hvms)
                /\ hvms'[calls'[i].vm].vm_type = req.vm
                /\ hvms'[calls'[i].vm].cpu = req.cpu]_vars

\* C21 witness: NewTask has attached a new VM to a machine that is not the first in
\* efficiency order, the machines before it not being eligible.
C21_Witness ==
    /\ lastCallback = "HandleNewTask"
    /\ \E i \in CallsOf("VM_Attach") :
        /\ calls[i].m # sortedMachinesByEfficiency[1]
        /\ hvms[calls[i].vm].vm_type = taskInfo[lastArg].profile.vm

\* the machines the claim lets FindMigrationTarget return for a VM
ClaimedMigrationTarget(m, v) ==
    /\ m # hvms[v].machine
    /\ MachineCPU[m] = hvms[v].cpu
    /\ sState[m] = "S0"
    /\ MemoryUsed(World, m) + VM_MEMORY_OVERHEAD + SumMem(taskInfo, hvms[v].tasks)
           <= MachineMemorySize[m]
    /\ machineUtilization[m] * 10 < 8 * MachineNumCPUs[m]

\* the positions in efficiency order of the machines a wake request may go to
SleepingOfFamily(v) ==
    {k \in 1 .. Len(sortedMachinesByEfficiency) :
        /\ sState[sortedMachinesByEfficiency[k]] # "S0"
        /\ MachineCPU[sortedMachinesByEfficiency[k]] = hvms[v].cpu}

\* C22: the migration SLAWarning issues goes to the first machine in efficiency order
\* FindMigrationTarget may return; a wake request is issued only when no S0 machine
\* is eligible, to the first non-S0 machine of the VM's CPU family only, and the
\* woken machine is not in the active set after the callback.
C22_MigrationTargetAndWake ==
    [][lastCallback' = "SLAWarning" =>
        \A v \in 1 .. Len(hvms) :
            (/\ lastArg' \in hvms[v].tasks
             /\ v \notin DOMAIN pendingMigrations
             /\ hvms[v].machine # NoMachine) =>
                /\ \A i \in 1 .. Len(calls') :
                       calls'[i].op = "VM_Migrate" =>
                           \E k \in 1 .. Len(sortedMachinesByEfficiency) :
                               /\ sortedMachinesByEfficiency[k] = calls'[i].m
                               /\ ClaimedMigrationTarget(calls'[i].m, v)
                               /\ \A j \in 1 .. (k - 1) :
                                      ~ClaimedMigrationTarget(sortedMachinesByEfficiency[j], v)
                /\ \A i \in 1 .. Len(calls') :
                       calls'[i].op = "Machine_SetState" =>
                           /\ \A m \in Machines : ~ClaimedMigrationTarget(m, v)
                           /\ \E k \in SleepingOfFamily(v) :
                               /\ sortedMachinesByEfficiency[k] = calls'[i].m
                               /\ \A j \in SleepingOfFamily(v) : k <= j
                           /\ \A j \in 1 .. Len(calls') :
                                  calls'[j].op = "Machine_SetState" => j = i
                           /\ calls'[i].m \notin activeMachines']_vars

\* the VMs on which SLAWarning may find a task: in the VM list, attached and not in
\* the Pending-Migration table
LocatedOn(t) ==
    {v \in 1 .. Len(hvms) :
        /\ \E i \in 1 .. Len(vms) : vms[i] = v
        /\ v \notin DOMAIN pendingMigrations
        /\ hvms[v].machine # NoMachine
        /\ t \in hvms[v].tasks}

\* the machines FindMigrationTarget may return for a VM, as positions in efficiency order
TargetPositions(v) ==
    {k \in 1 .. Len(sortedMachinesByEfficiency) :
        ClaimedMigrationTarget(sortedMachinesByEfficiency[k], v)}

\* the calls of an operation in the callback that has just run
NewCallsOf(op) == {i \in 1 .. Len(calls') : calls'[i].op = op}

\* SLAWarning for an SLA0/SLA1 task located on an S0 machine, run from the current state
\* with the machine in any P-state: it requests P0 exactly when the machine is not in P0
RaisesToP0FromAnyPState ==
    \A t \in Tasks, p \in PStates :
        \A v \in LocatedOn(t) :
            LET m == hvms[v].machine
                w == SLAWarningHandler([World EXCEPT !.pState[m] = p], t, TRUE)
            IN (taskInfo[t].profile.sla \in {"SLA0", "SLA1"} /\ sState[m] = "S0") =>
                   /\ w.pState[m] = "P0"
                   /\ (\E i \in 1 .. Len(w.calls) :
                           /\ w.calls[i].op = "Machine_SetCorePerformance"
                           /\ w.calls[i].m = m
                           /\ w.calls[i].arg = "P0") <=> (p # "P0")

\* C23: SLAWarning on a task found on an attached VM that is not migrating: SLA0/SLA1
\* sets the priority HIGH, raises an S0 machine that is not in P0 to P0 and, when the
\* recorded utilization exceeds 0.8 and a target exists, records the VM as pending and
\* issues one migration to that target (unless the host refuses the call); SLA2 raises
\* a LOW priority to MID; SLA3 and a task that is not found change nothing.
C23_SLAWarningByClass ==
    /\ [][lastCallback' = "SLAWarning" =>
        LET t == lastArg'
            sla == taskInfo[t].profile.sla
            idle == /\ calls' = <<>>
                    /\ UNCHANGED <<sState, stateReq, pState, hvms, taskInfo, vms,
                                   activeMachines, machineUtilization,
                                   pendingMigrations, pendingTasks>>
        IN
        IF LocatedOn(t) = {} \/ sla = "SLA3" THEN idle
        ELSE IF sla = "SLA2"
        THEN IF taskInfo[t].priority = "LOW_PRIORITY"
             THEN /\ Len(calls') = 1
                  /\ calls'[1].op = "SetTaskPriority"
                  /\ calls'[1].task = t
                  /\ calls'[1].arg = "MID_PRIORITY"
                  /\ taskInfo'[t].priority = "MID_PRIORITY"
             ELSE idle
        ELSE \A v \in LocatedOn(t) :
               LET m == hvms[v].machine
                   over == machineUtilization[m] * 10 > 8 * MachineNumCPUs[m]
               IN
               /\ taskInfo'[t].priority = "HIGH_PRIORITY"
               /\ \E i \in NewCallsOf("SetTaskPriority") :
                      calls'[i].task = t /\ calls'[i].arg = "HIGH_PRIORITY"
               /\ ({i \in NewCallsOf("Machine_SetCorePerformance") :
                        calls'[i].m = m /\ calls'[i].arg = "P0"} # {})
                      <=> (sState[m] = "S0" /\ pState[m] # "P0")
               /\ sState[m] = "S0" => pState'[m] = "P0"
               /\ IF over /\ TargetPositions(v) # {}
                  THEN LET k == CHOOSE i \in TargetPositions(v) :
                                    \A j \in TargetPositions(v) : i <= j
                           target == sortedMachinesByEfficiency[k]
                       IN /\ v \in DOMAIN pendingMigrations'
                          /\ pendingMigrations'[v] = target
                          /\ \/ threw'
                             \/ /\ Cardinality(NewCallsOf("VM_Migrate")) = 1
                                /\ \A i \in NewCallsOf("VM_Migrate") :
                                       calls'[i].vm = v /\ calls'[i].m = target
                  ELSE /\ NewCallsOf("VM_Migrate") = {}
                       /\ pendingMigrations' = pendingMigrations]_vars
    /\ []RaisesToP0FromAnyPState

\* C23 witness: an SLAWarning for an SLA0/SLA1 task has raised the priority and
\* issued the migration of its VM, which is now in the Pending-Migration table.
C23_Witness ==
    /\ lastCallback = "SLAWarning"
    /\ taskInfo[lastArg].profile.sla \in {"SLA0", "SLA1"}
    /\ taskInfo[lastArg].priority = "HIGH_PRIORITY"
    /\ \E i \in CallsOf("VM_Migrate") :
        /\ lastArg \in hvms[calls[i].vm].tasks
        /\ calls[i].vm \in DOMAIN pendingMigrations
        /\ pendingMigrations[calls[i].vm] = calls[i].m

\* the VMs of the scheduler's list
Registered == {vms[i] : i \in 1 .. Len(vms)}

\* C26: a VM whose VM_Attach the host rejected in a callback is not in the scheduler's
\* VM list after that callback, whether the callback is NewTask, StateChangeComplete
\* or Init.
C26_NoPartialVMInList ==
    \A i \in CallsOf("VM_Attach rejected") : calls[i].vm \notin Registered

\* StateChangeComplete run from the current state for a machine the host reports in
\* S5 or in an intermediate state (S3): in S5 the machine leaves the active set and its
\* utilization is zero, in the intermediate state its utilization is zero and the
\* active set is as before
OffAndIntermediateStates ==
    \A m \in Machines :
        LET off == StateChangeCompleteHandler([World EXCEPT !.sState[m] = "S5"], m, TRUE)
            mid == StateChangeCompleteHandler([World EXCEPT !.sState[m] = "S3"], m, TRUE)
        IN /\ m \notin off.activeMachines
           /\ off.activeMachines = activeMachines \ {m}
           /\ off.machineUtilization[m] = 0
           /\ mid.machineUtilization[m] = 0
           /\ mid.activeMachines = activeMachines

\* StateChangeComplete run from the current state for a machine that is in S0: the
\* default VM is created exactly when no VM of the list is attached to the machine
DefaultVMOnlyWhenNone ==
    \A m \in Machines :
        sState[m] = "S0" =>
            LET on == StateChangeCompleteHandler(World, m, TRUE) IN
            /\ m \in on.activeMachines
            /\ (\E i \in 1 .. Len(on.calls) : on.calls[i].op = "VM_Create")
                   <=> ~(\E v \in Registered : hvms[v].machine = m)

C25_MemoryWarningOnlyRaisesCores ==
    [][lastCallback' = "MemoryWarning" =>
        LET m == lastArg' IN
        /\ Len(calls') = MachineNumCPUs[m]
        /\ \A i \in 1 .. Len(calls') :
            /\ calls'[i].op = "Machine_SetCorePerformance"
            /\ calls'[i].m = m
            /\ calls'[i].task = i - 1
            /\ calls'[i].arg = "P0"
        /\ pState'[m] = "P0"
        /\ UNCHANGED <<activeMachines, machineUtilization, pendingMigrations, vms,
                       pendingTasks, hvms, sState, stateReq, taskInfo>>]_vars

\* C25 witness: a memory warning was handled for a machine with several cores that
\* holds two VMs of the list, one with more tasks than the other.
C25_Witness ==
    /\ lastCallback = "MemoryWarning"
    /\ MachineNumCPUs[lastArg] > 1
    /\ \E v1, v2 \in Registered :
        /\ hvms[v1].machine = lastArg
        /\ hvms[v2].machine = lastArg
        /\ Cardinality(hvms[v1].tasks) > Cardinality(hvms[v2].tasks)
    /\ Len(calls) = MachineNumCPUs[lastArg]

\* the priority of the SLA class alone
ClaimedClassPriority(sla) ==
    IF sla = "SLA0" THEN "HIGH_PRIORITY"
    ELSE IF sla = "SLA1" THEN "MID_PRIORITY"
    ELSE "LOW_PRIORITY"

\* NewTask's priority for a task whose deadline has passed by 1 up to 1,000,000,000,
\* for three deadlines and every SLA class
PassedDeadlineTable ==
    \A sla \in {"SLA0", "SLA1", "SLA2", "SLA3"} :
        \A target \in {0, 1, 10000000} :
            \A late \in {1, 11999999, 12000000, 12000001, 1000000000} :
                /\ ~Urgent(target, target + late)
                /\ TaskPriority(sla, target, target + late) = ClaimedClassPriority(sla)

C28_OneWakeRequestOutstanding ==
    [][\A i \in NewCallsOf("Machine_SetState") :
           /\ ~stateReq[calls'[i].m]
           /\ \A j \in NewCallsOf("Machine_SetState") :
                  calls'[j].m = calls'[i].m => j = i]_vars

====
